---- MODULE Spec2Model ----
(***************************************************************************)
(* The tree-ensemble code of src/ml as state machines over one set of      *)
(* variables:                                                              *)
(*   Spec           the tree-dump parser, the exporter and the test        *)
(*                  evaluator of train_and_export.py (parse_xgb_tree_dump, *)
(*                  export_xgboost, the predict_tree closure);             *)
(*   SpecArtifact   the artifact files train_and_export.py,                *)
(*                  train_xgboost.py and train_spy_returns.py write, and   *)
(*                  the decoder and evaluator that read them;              *)
(*   SpecConcurrent the prediction loop run by two callers on one          *)
(*                  artifact;                                              *)
(*   SpecLstm       the epoch loop of train_pytorch_model of               *)
(*                  train_lstm.py, with early stopping.                    *)
(*                                                                         *)
(* Numbers are fixed-point tenths: 15 stands for 1.5, 2 for 0.2, 100 for   *)
(* 10.  A float is a record [nan, val] so that NaN, the training           *)
(* framework's missing-value sentinel, compares as Python compares it.     *)
(*                                                                         *)
(* A dump line is held as what the three regular expressions of the parser *)
(* find in it: idm, leafm, splitm and branchm are the capture groups of    *)
(* the match (a one-element or empty sequence), indent the count of        *)
(* leading tabs.  The text of a JSON file is held as its token sequence.   *)
(***************************************************************************)
EXTENDS Integers, Sequences, FiniteSets, TLC

VARIABLES
    pc,          \* where the run is: "export_loop", "parse", "exported", "predict", "done", "raised", "off"
    nodes,       \* parse_xgb_tree_dump: the id -> node mapping of the dump being parsed
    lines,       \* parse_xgb_tree_dump: the lines the for loop has consumed, in order
    total_lines, \* lines consumed over all dumps of the run
    dumps_done,  \* export_xgboost: dumps of tree_dumps the for loop has processed
    parsed,      \* the value the last parse_xgb_tree_dump call returned
    trees,       \* export_xgboost: the list 'trees' (the artifact's 't')
    base_score,  \* the artifact's 'b'
    features,    \* test_features
    pred,        \* pred_7d
    k,           \* index of the next tree of 't' the prediction loop evaluates
    exc          \* the exception the run ended with, or "none"

\* The scripts' exports and the artifact files they write.
VARIABLES
    apc,           \* where the exporting script is: "start", "te_built", ..., "off"
    df,            \* train_and_export: the columns of df and the last row of df_train
    feature_names, \* feature_cols (train_and_export) or feature_names (the other two)
    X_last,        \* train_and_export: X[-1]
    model_json,    \* model_json (train_and_export) or export (the other two)
    files,         \* file name -> the text written to it
    test_features, \* train_and_export: test_features
    pred_7d,       \* train_and_export: pred_7d
    dinput,        \* decoder: the JSON value of the file being decoded
    loaded,        \* decoder: the artifact it produced, or None
    derr,          \* decoder: the error it failed with, or "none"
    request,       \* evaluator: the horizon label and the feature vector asked for
    result,        \* evaluator: what the last evaluation returned
    evals          \* evaluations made since the run started

avars == <<apc, df, feature_names, X_last, model_json, files, test_features,
           pred_7d, dinput, loaded, derr, request, result, evals>>

\* Concurrent callers of the evaluator on one artifact.
VARIABLES
    shared,        \* the artifact every caller evaluates
    cstate         \* caller -> its position, feature vector, loop index, sum, return

cvars == <<shared, cstate>>

\* train_pytorch_model of train_lstm.py.
VARIABLES
    lpc,              \* where the call is: "loop", "after_loop", "loaded", "returned", "raised", "off"
    epoch,            \* iterations of 'for epoch in range(EPOCHS)' completed
    params,           \* tensor storage -> its contents: the weights left by the n-th epoch
    val_loss,         \* val_loss of the last epoch, None before the first
    best_val_loss,    \* best_val_loss
    best_state,       \* best_state: None or parameter name -> tensor storage
    patience_counter, \* patience_counter
    metrics,          \* the metrics dict returned, None before
    seen              \* history of the run: the lowest val_loss so far, the epoch that
                      \* had it and the weights at its end, and the epochs since

lvars == <<lpc, epoch, params, val_loss, best_val_loss, best_state,
           patience_counter, metrics, seen>>

tvars == <<pc, nodes, lines, total_lines, dumps_done, parsed, trees,
           base_score, features, pred, k, exc>>

vars == <<tvars, avars, cvars, lvars>>

---------------------------------------------------------------------------
\* Bounds of the model.

\* Lines read over all the dumps of one run.
MaxLines == 3

\* Dumps returned by booster.get_dump() in one run.
MaxTrees == 2

\* Frames build_tree may nest before the interpreter raises RecursionError.
RecursionLimit == 4

\* Evaluations asked of one decoded artifact.
MaxEvals == 2

\* Evaluations each concurrent caller makes.
MaxCalls == 2

---------------------------------------------------------------------------
\* Values.

Num(v) == [nan |-> FALSE, val |-> v]

NaN == [nan |-> TRUE, val |-> 0]

\* Python's float '<': every comparison with NaN is False.
FloatLess(a, t) == (~a.nan) /\ a.val < t

None == [none |-> TRUE]

RecursionError == [raised |-> "RecursionError"]

IsNone(x) == "none" \in DOMAIN x

IsRaised(x) == "raised" \in DOMAIN x

IsNode(x) == "nodeid" \in DOMAIN x

EmptyDict == [x \in {} |-> None]

\* d[key] = value
DictSet(d, key, value) ==
    [x \in (DOMAIN d) \cup {key} |-> IF x = key THEN value ELSE d[x]]

---------------------------------------------------------------------------
\* The dump lines the model draws from.

NoMatch == << >>

LeafLine(indent, id, value) ==
    [indent |-> indent, idm |-> <<id>>, leafm |-> <<value>>,
     splitm |-> NoMatch, branchm |-> NoMatch]

SplitLine(indent, id, feature, threshold, yes, no, missing) ==
    [indent |-> indent, idm |-> <<id>>, leafm |-> NoMatch,
     splitm |-> <<feature, threshold>>, branchm |-> <<yes, no, missing>>]

\* A line without the leading '<id>:' (a blank line, the empty dump, free text).
NoIdLine ==
    [indent |-> 0, idm |-> NoMatch, leafm |-> NoMatch,
     splitm |-> NoMatch, branchm |-> NoMatch]

\* '<id>:[f<th]' without the yes=,no=,missing= token.
PartialLine(id, feature, threshold) ==
    [indent |-> 0, idm |-> <<id>>, leafm |-> NoMatch,
     splitm |-> <<feature, threshold>>, branchm |-> NoMatch]

LeafLines ==
    { LeafLine(0, 0, 15), LeafLine(1, 1, -30), LeafLine(1, 2, 40) }

SplitLines ==
    { SplitLine(0, 0, "f0", 100, 1, 2, 1),
      SplitLine(0, 0, "f0", 0, 1, 2, 1),
      SplitLine(0, 0, "f0", 100, 1, 2, 2),
      SplitLine(0, 0, "f0", 0, 1, 2, 2),
      SplitLine(0, 0, "f1", 100, 1, 2, 1),
      SplitLine(0, 0, "f0", 100, 1, 1, 2),
      SplitLine(0, 0, "f0", 100, 0, 2, 0),
      SplitLine(1, 0, "f0", 100, 1, 2, 1),
      SplitLine(1, 1, "f0", 0, 2, 2, 2),
      SplitLine(1, 1, "f0", 100, 2, 0, 2) }

OtherLines == { NoIdLine, PartialLine(2, "f0", 100) }

Lines == LeafLines \cup SplitLines \cup OtherLines

\* base_score values of the model configuration.
BaseScores == {0, 2}

\* The feature list 'f' of the artifact (get_feature_columns), cut to one name.
feature_cols == <<"pxi_score">>

\* The i of a split token f<i>.
TokenIndex == [f0 |-> 0, f1 |-> 1]

\* The keys of test_features: f<i> for every i below len(feature_cols).
FeatureKeys == { t \in DOMAIN TokenIndex : TokenIndex[t] < Len(feature_cols) }

FeatureValues == {Num(0), Num(50), Num(100), Num(150), NaN}

\* The vectors predict_tree is called with: f0 given, or no entry at all.
FeatureVectors ==
    UNION { [ks -> FeatureValues] : ks \in SUBSET FeatureKeys }

---------------------------------------------------------------------------
\* parse_xgb_tree_dump

\* leaf_node with the value cut to a whole number (int() for float()).
leaf_node_int(nodeid, value) ==
    [nodeid |-> nodeid, leaf |-> (value \div 10) * 10]

\* The entry made for a leaf line: {'nodeid': nodeid, 'leaf': float(...)}.
leaf_node(nodeid, value) == [nodeid |-> nodeid, leaf |-> value]

\* tree_str.strip() takes the leading tabs off the first line of the dump.
FirstLine(l) == [l EXCEPT !.indent = 0]

\* parse_line with the indentation steering the parse: a split line without
\* indentation is taken only as the root.
parse_line_by_indent(ns, l) ==
    IF Len(l.idm) = 0
    THEN ns
    ELSE LET nodeid == l.idm[1] IN
         IF Len(l.leafm) > 0
         THEN DictSet(ns, nodeid, leaf_node(nodeid, l.leafm[1]))
         ELSE IF Len(l.splitm) > 0 /\ Len(l.branchm) > 0
                 /\ (l.indent > 0 \/ nodeid = 0)
              THEN DictSet(ns, nodeid,
                       [nodeid |-> nodeid,
                        depth |-> l.indent,
                        split |-> l.splitm[1],
                        split_condition |-> l.splitm[2],
                        yes |-> l.branchm[1],
                        no |-> l.branchm[2],
                        missing |-> l.branchm[3]])
              ELSE ns

\* The body of the 'for line in lines' loop.
parse_line(ns, l) ==
    IF Len(l.idm) = 0
    THEN ns
    ELSE LET nodeid == l.idm[1] IN
         IF Len(l.leafm) > 0
         THEN DictSet(ns, nodeid, leaf_node(nodeid, l.leafm[1]))
         ELSE IF Len(l.splitm) > 0 /\ Len(l.branchm) > 0
              THEN DictSet(ns, nodeid,
                       [nodeid |-> nodeid,
                        depth |-> l.indent,
                        split |-> l.splitm[1],
                        split_condition |-> l.splitm[2],
                        yes |-> l.branchm[1],
                        no |-> l.branchm[2],
                        missing |-> l.branchm[3]])
              ELSE ns

RECURSIVE build_tree(_, _, _)
\* build_tree(nodeid) over the mapping ns, in the frame numbered 'frame'.
build_tree(ns, nodeid, frame) ==
    IF frame > RecursionLimit
    THEN RecursionError
    ELSE IF nodeid \notin DOMAIN ns
    THEN None
    ELSE LET node == ns[nodeid] IN
         IF "leaf" \in DOMAIN node
         THEN node
         ELSE LET yes_child == IF node.yes \in DOMAIN ns
                               THEN build_tree(ns, node.yes, frame + 1)
                               ELSE None
                  no_child == IF node.no \in DOMAIN ns
                              THEN build_tree(ns, node.no, frame + 1)
                              ELSE None
                  children == (IF IsNode(yes_child) THEN <<yes_child>> ELSE << >>)
                              \o (IF IsNode(no_child) THEN <<no_child>> ELSE << >>)
              IN IF IsRaised(yes_child) THEN RecursionError
                 ELSE IF IsRaised(no_child) THEN RecursionError
                 ELSE IF Len(children) > 0
                      THEN node @@ [children |-> children]
                      ELSE node

---------------------------------------------------------------------------
\* predict_tree

\* node.get('children', [])
ChildrenOf(node) ==
    IF "children" \in DOMAIN node THEN node.children ELSE << >>

\* features.get(node['split'], float('nan')): an absent feature read as missing.
feat_val_nan(node, fs) ==
    IF node.split \in DOMAIN fs THEN fs[node.split] ELSE NaN

\* features.get(node['split'], 0)
feat_val(node, fs) ==
    IF node.split \in DOMAIN fs THEN fs[node.split] ELSE Num(0)

\* go_left with '<=' in place of '<'.
go_left_le(node, fs) ==
    (~feat_val(node, fs).nan) /\ feat_val(node, fs).val <= node.split_condition

go_left(node, fs) == FloatLess(feat_val(node, fs), node.split_condition)

\* target_id with the two branches exchanged.
target_id_swapped(node, fs) == IF go_left(node, fs) THEN node.no ELSE node.yes

target_id(node, fs) == IF go_left(node, fs) THEN node.yes ELSE node.no

\* Indexes of the children the 'for child' loop accepts; the first one is taken.
Matching(node, fs) ==
    { i \in 1..Len(ChildrenOf(node)) :
        ChildrenOf(node)[i].nodeid = target_id(node, fs) }

Min(S) == CHOOSE x \in S : \A y \in S : x <= y

RECURSIVE predict_tree(_, _)
predict_tree(node, fs) ==
    IF "leaf" \in DOMAIN node
    THEN node.leaf
    ELSE IF Matching(node, fs) = {}
         THEN 0
         ELSE predict_tree(ChildrenOf(node)[Min(Matching(node, fs))], fs)

RECURSIVE Path(_, _)
\* The nodes the calls of predict_tree visit, the root first.
Path(node, fs) ==
    IF "leaf" \in DOMAIN node
    THEN <<node>>
    ELSE IF Matching(node, fs) = {}
         THEN <<node>>
         ELSE <<node>> \o Path(ChildrenOf(node)[Min(Matching(node, fs))], fs)

---------------------------------------------------------------------------
\* json.dump and json.loads.  The text of a file is held as its sequence of
\* lexical tokens: punctuation, strings, numbers, and the white space that
\* indent=2 writes and separators=(',', ':') does not.

Ws == [k |-> "ws"]

Punct(c) == [k |-> "p", c |-> c]

Str(s) == [k |-> "str", s |-> s]

Number(n) == [k |-> "num", n |-> n]

IsPunct(tk, c) == tk.k = "p" /\ tk.c = c

\* The item separator and the key separator of the two styles.
item_separator(indent) == IF indent THEN <<Punct(","), Ws>> ELSE <<Punct(",")>>

key_separator(indent) == IF indent THEN <<Punct(":"), Ws>> ELSE <<Punct(":")>>

RECURSIVE Join(_, _)
\* The token sequences 'parts' in order, sep between two of them.
Join(parts, sep) ==
    IF Len(parts) = 0 THEN << >>
    ELSE IF Len(parts) = 1 THEN parts[1]
    ELSE parts[1] \o sep \o Join(Tail(parts), sep)

\* A list whose items are already encoded: '[]' when empty; with an indent
\* every item starts on a line of its own.
enc_list(items, indent) ==
    IF Len(items) = 0 THEN <<Punct("["), Punct("]")>>
    ELSE <<Punct("[")>> \o (IF indent THEN <<Ws>> ELSE << >>)
           \o Join(items, item_separator(indent))
           \o (IF indent THEN <<Ws>> ELSE << >>) \o <<Punct("]")>>

\* A dict given as the sequence of its <<key, encoded value>> pairs in
\* insertion order.
enc_dict(members, indent) ==
    IF Len(members) = 0 THEN <<Punct("{"), Punct("}")>>
    ELSE <<Punct("{")>> \o (IF indent THEN <<Ws>> ELSE << >>)
           \o Join([i \in 1..Len(members) |->
                      <<Str(members[i][1])>> \o key_separator(indent) \o members[i][2]],
                   item_separator(indent))
           \o (IF indent THEN <<Ws>> ELSE << >>) \o <<Punct("}")>>

enc_strings(ss, indent) == enc_list([i \in 1..Len(ss) |-> <<Str(ss[i])>>], indent)

RECURSIVE enc_tree(_, _)
\* A tree node: the keys of a leaf, or those of a split in the order the
\* parser inserts them, 'children' last and only when present.
enc_tree(node, indent) ==
    IF "leaf" \in DOMAIN node
    THEN enc_dict(<< <<"nodeid", <<Number(node.nodeid)>> >>,
                     <<"leaf", <<Number(node.leaf)>> >> >>, indent)
    ELSE enc_dict(
           << <<"nodeid", <<Number(node.nodeid)>> >>,
              <<"depth", <<Number(node.depth)>> >>,
              <<"split", <<Str(node.split)>> >>,
              <<"split_condition", <<Number(node.split_condition)>> >>,
              <<"yes", <<Number(node.yes)>> >>,
              <<"no", <<Number(node.no)>> >>,
              <<"missing", <<Number(node.missing)>> >> >>
           \o (IF "children" \in DOMAIN node
               THEN << <<"children",
                         enc_list([i \in 1..Len(node.children) |->
                                     enc_tree(node.children[i], indent)], indent)>> >>
               ELSE << >>),
           indent)

enc_trees(ts, indent) ==
    enc_list([i \in 1..Len(ts) |-> enc_tree(ts[i], indent)], indent)

\* The scanner of json.loads skips white space between tokens.
skip_whitespace(bytes) == SelectSeq(bytes, LAMBDA tk : tk.k # "ws")

RECURSIVE parse_value(_, _)
RECURSIVE parse_array(_, _, _)
RECURSIVE parse_object(_, _, _)
\* The value that starts at token i, and the index of the token after it.
parse_value(toks, i) ==
    IF toks[i].k = "str" THEN [v |-> toks[i].s, i |-> i + 1]
    ELSE IF toks[i].k = "num" THEN [v |-> toks[i].n, i |-> i + 1]
    ELSE IF IsPunct(toks[i], "[") THEN parse_array(toks, i + 1, << >>)
    ELSE parse_object(toks, i + 1, EmptyDict)

parse_array(toks, i, acc) ==
    IF IsPunct(toks[i], "]") THEN [v |-> acc, i |-> i + 1]
    ELSE IF IsPunct(toks[i], ",") THEN parse_array(toks, i + 1, acc)
    ELSE LET item == parse_value(toks, i)
         IN parse_array(toks, item.i, Append(acc, item.v))

parse_object(toks, i, acc) ==
    IF IsPunct(toks[i], "}") THEN [v |-> acc, i |-> i + 1]
    ELSE IF IsPunct(toks[i], ",") THEN parse_object(toks, i + 1, acc)
    ELSE LET member == parse_value(toks, i + 2)
         IN parse_object(toks, member.i, DictSet(acc, toks[i].s, member.v))

json_loads(bytes) == parse_value(skip_whitespace(bytes), 1).v

---------------------------------------------------------------------------
\* The values of the variables of a part of the program that is not running.

\* No exporting script has run, nothing is decoded or evaluated.
ArtifactInit ==
    /\ df = None
    /\ feature_names = << >>
    /\ X_last = << >>
    /\ model_json = None
    /\ files = EmptyDict
    /\ test_features = EmptyDict
    /\ pred_7d = 0
    /\ dinput = None
    /\ loaded = None
    /\ derr = "none"
    /\ request = None
    /\ result = None
    /\ evals = 0

\* No caller is evaluating.
CallersOff == shared = None /\ cstate = EmptyDict

\* No training call.
LstmOff ==
    /\ lpc = "off"
    /\ epoch = 0
    /\ params = EmptyDict
    /\ val_loss = None
    /\ best_val_loss = None
    /\ best_state = None
    /\ patience_counter = 0
    /\ metrics = None
    /\ seen = None

---------------------------------------------------------------------------
\* The run: export_xgboost, then the test prediction of train_and_export.

Init ==
    /\ pc = "export_loop"
    /\ nodes = EmptyDict
    /\ lines = << >>
    /\ total_lines = 0
    /\ dumps_done = 0
    /\ parsed = None
    /\ trees = << >>
    /\ base_score = 0
    /\ features = EmptyDict
    /\ pred = 0
    /\ k = 0
    /\ exc = "none"
    /\ apc = "off"
    /\ ArtifactInit
    /\ CallersOff
    /\ LstmOff

\* export_xgboost takes the next dump of tree_dumps; parse_xgb_tree_dump starts.
NextDump ==
    /\ pc = "export_loop"
    /\ dumps_done < MaxTrees
    /\ total_lines < MaxLines
    /\ pc' = "parse"
    /\ nodes' = EmptyDict
    /\ lines' = << >>
    /\ UNCHANGED <<total_lines, dumps_done, parsed, trees, base_score,
                   features, pred, k, exc>>
    /\ UNCHANGED <<avars, cvars, lvars>>

\* One iteration of the line loop of parse_xgb_tree_dump.
ParseLine ==
    /\ pc = "parse"
    /\ total_lines < MaxLines
    /\ \E raw \in Lines :
          LET line == IF Len(lines) = 0 THEN FirstLine(raw) ELSE raw IN
          /\ lines' = Append(lines, line)
          /\ nodes' = parse_line(nodes, line)
    /\ total_lines' = total_lines + 1
    /\ UNCHANGED <<pc, dumps_done, parsed, trees, base_score, features,
                   pred, k, exc>>
    /\ UNCHANGED <<avars, cvars, lvars>>

\* The lines are exhausted (split('\n') yields at least one): build_tree(0)
\* runs, the call returns and export_xgboost keeps the tree if it is truthy.
FinishParse ==
    /\ pc = "parse"
    /\ Len(lines) >= 1
    /\ LET tree == build_tree(nodes, 0, 1) IN
       IF IsRaised(tree)
       THEN /\ exc' = tree.raised
            /\ pc' = "raised"
            /\ UNCHANGED <<parsed, trees, dumps_done>>
       ELSE /\ parsed' = tree
            /\ trees' = IF IsNone(tree) THEN trees ELSE Append(trees, tree)
            /\ dumps_done' = dumps_done + 1
            /\ pc' = "export_loop"
            /\ exc' = exc
    /\ lines' = << >>
    /\ UNCHANGED <<nodes, total_lines, base_score, features, pred, k>>
    /\ UNCHANGED <<avars, cvars, lvars>>

\* The loop over tree_dumps ends; base_score is read from the configuration
\* and the {'b', 't'} record is returned.
FinishExport ==
    /\ pc = "export_loop"
    /\ \E b \in BaseScores : base_score' = b
    /\ pc' = "exported"
    /\ UNCHANGED <<nodes, lines, total_lines, dumps_done, parsed, trees,
                   features, pred, k, exc>>
    /\ UNCHANGED <<avars, cvars, lvars>>

\* StartPredict with pred_7d started from 0 instead of 'b'.
StartPredict_no_base ==
    /\ pc = "exported"
    /\ \E fs \in FeatureVectors : features' = fs
    /\ pred' = 0
    /\ k' = 1
    /\ pc' = "predict"
    /\ UNCHANGED <<nodes, lines, total_lines, dumps_done, parsed, trees,
                   base_score, exc>>
    /\ UNCHANGED <<avars, cvars, lvars>>

\* test_features is built and pred_7d starts from 'b'.
StartPredict ==
    /\ pc = "exported"
    /\ \E fs \in FeatureVectors : features' = fs
    /\ pred' = base_score
    /\ k' = 1
    /\ pc' = "predict"
    /\ UNCHANGED <<nodes, lines, total_lines, dumps_done, parsed, trees,
                   base_score, exc>>
    /\ UNCHANGED <<avars, cvars, lvars>>

\* One iteration of 'for tree in t: pred_7d += predict_tree(tree, test_features)'.
PredictNext ==
    /\ pc = "predict"
    /\ k <= Len(trees)
    /\ pred' = pred + predict_tree(trees[k], features)
    /\ k' = k + 1
    /\ UNCHANGED <<pc, nodes, lines, total_lines, dumps_done, parsed, trees,
                   base_score, features, exc>>
    /\ UNCHANGED <<avars, cvars, lvars>>

FinishPredict ==
    /\ pc = "predict"
    /\ k > Len(trees)
    /\ pc' = "done"
    /\ UNCHANGED <<nodes, lines, total_lines, dumps_done, parsed, trees,
                   base_score, features, pred, k, exc>>
    /\ UNCHANGED <<avars, cvars, lvars>>

Next ==
    \/ NextDump
    \/ ParseLine
    \/ FinishParse
    \/ FinishExport
    \/ StartPredict
    \/ PredictNext
    \/ FinishPredict

Spec == Init /\ [][Next]_vars

---------------------------------------------------------------------------
\* Notions the properties below are stated with.

IsSplit(n) == "split" \in DOMAIN n

IsLeaf(n) == "leaf" \in DOMAIN n

RECURSIVE AllNodes(_)
\* Every node record nested in a tree, the root included.
AllNodes(tree) ==
    {tree} \cup UNION { AllNodes(ChildrenOf(tree)[i]) : i \in 1..Len(ChildrenOf(tree)) }

\* The feature of split node n has a numeric entry in the vector fs.
HasNumber(n, fs) == n.split \in DOMAIN fs /\ ~fs[n.split].nan

\* The feature of split node n is marked missing (NaN) in the vector fs.
MarkedMissing(n, fs) == n.split \in DOMAIN fs /\ fs[n.split].nan

\* The walk of predict_tree over tree ends on a split node: no child carries
\* the selected id and the function returns 0.
Unresolved(tree, fs) == IsSplit(Path(tree, fs)[Len(Path(tree, fs))])

\* The value of the leaf the walk ends on, 0 if it ends on no leaf.
Contribution(tree, fs) ==
    LET last == Path(tree, fs)[Len(Path(tree, fs))]
    IN IF IsLeaf(last) THEN last.leaf ELSE 0

RECURSIVE SumContributions(_, _, _)
SumContributions(ts, n, fs) ==
    IF n = 0 THEN 0
    ELSE SumContributions(ts, n - 1, fs) + Contribution(ts[n], fs)

\* Two of the lines ls carry the same node id.
HasDuplicateId(ls) ==
    \E i, j \in 1..Len(ls) :
       i < j /\ Len(ls[i].idm) > 0 /\ ls[i].idm = ls[j].idm

\* A parse_xgb_tree_dump call has returned and export_xgboost has not started
\* the next one: nodes and parsed are those of that call.
ParseReturned == pc = "export_loop" /\ dumps_done >= 1

Evaluating == pc \in {"predict", "done"}

\* 0:[f0<10] yes=1,no=2,missing=1 / 1:leaf=-3.0 / 2:leaf=4.0
ExampleTree ==
    [nodeid |-> 0, depth |-> 0, split |-> "f0", split_condition |-> 100,
     yes |-> 1, no |-> 2, missing |-> 1,
     children |-> <<[nodeid |-> 1, leaf |-> -30], [nodeid |-> 2, leaf |-> 40]>>]

\* 0:leaf=1.5
ExampleStump == [nodeid |-> 0, leaf |-> 15]

---------------------------------------------------------------------------
\* C1: at every split node predict_tree reaches with a numeric feature value v
\* and threshold t, the branch selected is yes if v < t and no otherwise (so no
\* for v = t); the walk continues into the child carrying that id and ends
\* there only if no child carries it; and for a single tree whose selected
\* child is a leaf the finished prediction is base_score plus that leaf.
C1_StrictLessThan ==
    /\ \A i \in 1..Len(trees) :
         LET p == Path(trees[i], features) IN
         \A j \in 1..Len(p) :
           (IsSplit(p[j]) /\ HasNumber(p[j], features)) =>
             LET v == features[p[j].split].val
                 t == p[j].split_condition
                 branch == IF v < t THEN p[j].yes ELSE p[j].no
             IN /\ target_id(p[j], features) = branch
                /\ (j < Len(p)) => p[j + 1].nodeid = branch
                /\ (j = Len(p)) =>
                     \A c \in 1..Len(ChildrenOf(p[j])) :
                        ChildrenOf(p[j])[c].nodeid # branch
    /\ (pc = "done" /\ Len(trees) = 1 /\ IsSplit(trees[1])
          /\ HasNumber(trees[1], features)) =>
         LET v == features[trees[1].split].val
             t == trees[1].split_condition
             branch == IF v < t THEN trees[1].yes ELSE trees[1].no
         IN \A c \in 1..Len(ChildrenOf(trees[1])) :
              LET child == ChildrenOf(trees[1])[c] IN
              (child.nodeid = branch /\ IsLeaf(child)) =>
                 pred = base_score + child.leaf

\* The example tree evaluated at f0 = 10, the threshold itself: the no leaf 4.0.
C1_Witness ==
    /\ pc = "done"
    /\ trees = <<ExampleTree>>
    /\ features = [f0 |-> Num(100)]
    /\ pred = base_score + 40

\* C2: from a split node whose feature is marked missing in the vector, the
\* walk of predict_tree over an evaluated tree continues into the child
\* carrying missing_id.
C2_MissingFollowsMissingId ==
    Evaluating =>
      \A i \in 1..(k - 1) :
        LET p == Path(trees[i], features) IN
        \A j \in 1..(Len(p) - 1) :
          (IsSplit(p[j]) /\ MarkedMissing(p[j], features)) =>
             p[j + 1].nodeid = p[j].missing

\* C3: the prediction is base_score plus the sum over the trees evaluated so
\* far of the value of the leaf each walk ended on, and over all trees of 't'
\* once the loop is done; nothing else is applied to it.
C3_BasePlusSum ==
    /\ pc = "predict" => pred = base_score + SumContributions(trees, k - 1, features)
    /\ pc = "done" => pred = base_score + SumContributions(trees, Len(trees), features)

\* base_score 0.2 and the single tree 0:leaf=1.5 give 1.7.
C3_Witness ==
    /\ pc = "done"
    /\ base_score = 2
    /\ trees = <<ExampleStump>>
    /\ pred = 17

\* C4: a line '0:leaf=v' puts {nodeid 0, leaf v} into the mapping; a dump whose
\* only node is that leaf parses to exactly this node, which export_xgboost
\* appends; predict_tree returns the value of a leaf-only tree for every vector,
\* the empty one included, and so the finished prediction over leaf-only trees
\* is base_score plus their values.
C4_Stump ==
    /\ (pc = "parse" /\ Len(lines) >= 1 /\ lines[Len(lines)].idm = <<0>>
          /\ Len(lines[Len(lines)].leafm) > 0) =>
          (0 \in DOMAIN nodes
             /\ nodes[0] = [nodeid |-> 0, leaf |-> lines[Len(lines)].leafm[1]])
    /\ (ParseReturned /\ DOMAIN nodes = {0} /\ IsLeaf(nodes[0])) =>
          /\ parsed = nodes[0]
          /\ DOMAIN parsed = {"nodeid", "leaf"}
          /\ Len(trees) >= 1 /\ trees[Len(trees)] = parsed
    /\ \A i \in 1..Len(trees) :
          IsLeaf(trees[i]) =>
             \A fs \in FeatureVectors : predict_tree(trees[i], fs) = trees[i].leaf
    /\ (pc = "done" /\ Len(trees) = 1 /\ IsLeaf(trees[1])) =>
          pred = base_score + trees[1].leaf

\* The dump 0:leaf=1.5 alone, evaluated on the empty vector.
C4_Witness ==
    /\ pc = "done"
    /\ DOMAIN nodes = {0}
    /\ trees = <<ExampleStump>>
    /\ features = EmptyDict
    /\ pred = base_score + 15

\* C5: a tree returned by parse_xgb_tree_dump has, at every split node, both
\* resolved children; a yes or no id absent from the mapping makes the parse
\* fail with MalformedDump instead.
C5_DanglingRejected ==
    ParseReturned =>
      \/ exc = "MalformedDump"
      \/ IsNode(parsed) =>
           \A n \in AllNodes(parsed) : IsSplit(n) => Len(ChildrenOf(n)) = 2

\* C6: a parse_xgb_tree_dump call over a dump in which two lines carry the same
\* node id ends with MalformedDump; it does not return.
C6_DuplicateIdRejected ==
    [][ (pc = "parse" /\ pc' # "parse" /\ HasDuplicateId(lines))
        => exc' = "MalformedDump" ]_vars

\* C7: a parse_xgb_tree_dump call that returns, returns a tree node with id 0;
\* otherwise it has failed with MalformedDump.
C7_RootOrMalformedDump ==
    ParseReturned =>
      \/ exc = "MalformedDump"
      \/ IsNode(parsed) /\ parsed.nodeid = 0

\* C8: an artifact returned by export_xgboost holds one tree per dump.
C8_OneTreePerDump ==
    pc \in {"exported", "predict", "done"} => Len(trees) = dumps_done

\* C9: an evaluation whose walk met a split node with no child carrying the
\* selected id is aborted with InternalConsistencyError.
C9_UnresolvedBranchAborts ==
    (Evaluating /\ \E i \in 1..(k - 1) : Unresolved(trees[i], features))
      => exc = "InternalConsistencyError"

\* C10: an evaluation is aborted with InternalConsistencyError at a split node
\* whose feature reference f<i> has i >= len(feature_cols); the walk does not
\* continue below such a node on a value substituted for the feature.
C10_OutOfRangeFeatureAborts ==
    (Evaluating /\ \E i \in 1..(k - 1) :
        \E j \in 1..(Len(Path(trees[i], features)) - 1) :
           LET n == Path(trees[i], features)[j] IN
           IsSplit(n) /\ TokenIndex[n.split] >= Len(feature_cols))
      => exc = "InternalConsistencyError"

---------------------------------------------------------------------------
\* Notions of the tree-shape properties.

RECURSIVE NodeIdSeq(_)
\* The node ids of a nested tree in the order the nodes are nested.
NodeIdSeq(tree) ==
    <<tree.nodeid>>
      \o (IF Len(ChildrenOf(tree)) >= 1 THEN NodeIdSeq(ChildrenOf(tree)[1]) ELSE << >>)
      \o (IF Len(ChildrenOf(tree)) >= 2 THEN NodeIdSeq(ChildrenOf(tree)[2]) ELSE << >>)

\* The ids of the nodes nested in a tree.
NodeIdSet(tree) == { n.nodeid : n \in AllNodes(tree) }

\* The ids of ns one yes/no reference away from the ids S.
RefStep(ns, S) ==
    S \cup { r \in DOMAIN ns :
               \E i \in S : IsSplit(ns[i]) /\ (r = ns[i].yes \/ r = ns[i].no) }

RECURSIVE RefClosure(_, _)
RefClosure(ns, S) ==
    IF RefStep(ns, S) = S THEN S ELSE RefClosure(ns, RefStep(ns, S))

\* The ids of the mapping ns reachable from id 0 through yes/no references.
ReachableIds(ns) == IF 0 \in DOMAIN ns THEN RefClosure(ns, {0}) ELSE {}

\* The node record without its 'children'.
Bare(n) == [f \in (DOMAIN n) \ {"children"} |-> n[f]]

\* C16: a tree returned by parse_xgb_tree_dump has root id 0 and carries no
\* node id twice.
C16_UniqueIds ==
    (ParseReturned /\ IsNode(parsed)) =>
      /\ parsed.nodeid = 0
      /\ \A i, j \in 1..Len(NodeIdSeq(parsed)) :
            i < j => NodeIdSeq(parsed)[i] # NodeIdSeq(parsed)[j]

\* C17: in a tree returned by parse_xgb_tree_dump the yes, no and missing ids of
\* every split node are ids of nodes of that tree.
C17_ReferencesResolve ==
    (ParseReturned /\ IsNode(parsed)) =>
      \A n \in AllNodes(parsed) :
        IsSplit(n) => {n.yes, n.no, n.missing} \subseteq NodeIdSet(parsed)

\* C20: in a tree returned by parse_xgb_tree_dump every split node has exactly
\* two children, the entry of its yes id and then the entry of its no id; no
\* leaf has children; and the ids of the tree are those reachable from 0
\* through yes/no references.
C20_ChildrenYesThenNo ==
    (ParseReturned /\ IsNode(parsed)) =>
      /\ \A n \in AllNodes(parsed) :
           /\ IsSplit(n) =>
                /\ Len(ChildrenOf(n)) = 2
                /\ n.yes \in DOMAIN nodes /\ n.no \in DOMAIN nodes
                /\ Bare(ChildrenOf(n)[1]) = nodes[n.yes]
                /\ Bare(ChildrenOf(n)[2]) = nodes[n.no]
           /\ IsLeaf(n) => "children" \notin DOMAIN n
      /\ NodeIdSet(parsed) = ReachableIds(nodes)

---------------------------------------------------------------------------
\* train_and_export: the feature columns, the training matrix, model_json.

CATEGORIES ==
    <<"breadth", "credit", "crypto", "global", "macro", "positioning", "volatility">>

\* f'cat_{cat}'
cat_col ==
    [breadth |-> "cat_breadth", credit |-> "cat_credit", crypto |-> "cat_crypto",
     global |-> "cat_global", macro |-> "cat_macro",
     positioning |-> "cat_positioning", volatility |-> "cat_volatility"]

\* [c for c in cs if c in columns]
Existing(cs, columns) == SelectSeq(cs, LAMBDA c : c \in columns)

get_feature_columns(columns) ==
    Existing(
        <<"pxi_score", "pxi_delta_1d", "pxi_delta_7d", "pxi_delta_30d",
          "momentum_7d_signal", "momentum_30d_signal",
          "acceleration", "acceleration_signal">>
        \o Existing([i \in 1..Len(CATEGORIES) |-> cat_col[CATEGORIES[i]]], columns)
        \o <<"category_dispersion", "category_std", "category_mean",
             "extreme_low", "extreme_high", "weak_categories", "strong_categories",
             "pxi_bucket">>
        \o <<"pxi_ma_5", "pxi_ma_20", "pxi_std_20", "pxi_vs_ma_20">>
        \o Existing(<<"vix", "hy_oas", "ig_oas", "put_call_ratio", "aaii_bull_bear">>,
                    columns)
        \o (IF "vix" \in columns THEN <<"vix_high", "vix_low">> ELSE << >>),
        columns)

\* The columns engineer_features always creates, with those it reads.
EngineeredColumns ==
    {"pxi_score", "pxi_delta_7d", "pxi_delta_30d",
     "momentum_7d_signal", "momentum_30d_signal", "acceleration",
     "acceleration_signal", "category_dispersion", "category_std",
     "category_mean", "extreme_low", "extreme_high", "weak_categories",
     "strong_categories", "pxi_bucket", "pxi_ma_5", "pxi_ma_20", "pxi_std_20",
     "pxi_vs_ma_20", "target_7d", "target_30d", "date"}

\* engineer_features adds vix_high and vix_low when the data has vix.
VixColumns(data) == IF "vix" \in data THEN {"vix_high", "vix_low"} ELSE {}

\* The columns the loaded data brings, in the runs of the model.
DataColumnSets ==
    { {"pxi_delta_1d", "cat_breadth", "cat_credit", "cat_crypto", "cat_global",
       "cat_macro", "cat_positioning", "cat_volatility",
       "vix", "hy_oas", "ig_oas", "put_call_ratio", "aaii_bull_bear"},
      {"pxi_delta_1d", "cat_breadth", "cat_credit", "cat_global", "cat_macro",
       "cat_volatility", "vix"},
      {"pxi_delta_1d", "cat_credit", "cat_crypto", "hy_oas", "aaii_bull_bear"},
      {"cat_breadth", "cat_positioning", "hy_oas", "ig_oas"} }

DfColumns ==
    { EngineeredColumns \cup data \cup VixColumns(data) : data \in DataColumnSets }

AllColumns == UNION DfColumns

\* A value per feature column that tells the columns apart: its place in the
\* list of all of them.
ColumnValue(c) ==
    LET all == get_feature_columns(AllColumns)
    IN IF \E i \in 1..Len(all) : all[i] = c
       THEN CHOOSE i \in 1..Len(all) : all[i] = c
       ELSE 0

\* The last row of df_train: a number in every column, NaN in those of 'nans'.
LastRow(columns, nans) ==
    [c \in columns |-> IF c \in nans THEN NaN ELSE Num(ColumnValue(c))]

NanColumnSets == { {}, {"pxi_ma_20", "pxi_std_20"} }

\* DataFrame.fillna(0) on one value.
fillna(v) == IF v.nan THEN Num(0) ELSE v

\* df_train[feature_cols].fillna(0).values[-1]
X_row(cols, row) ==
    [i \in 1..Len(cols) |-> fillna(row[cols[i]])]

\* f'f{i}' for i = 0, 1, ...
FeatureToken ==
    <<"f0", "f1", "f2", "f3", "f4", "f5", "f6", "f7", "f8", "f9",
      "f10", "f11", "f12", "f13", "f14", "f15", "f16", "f17", "f18", "f19",
      "f20", "f21", "f22", "f23", "f24", "f25", "f26", "f27", "f28", "f29",
      "f30", "f31", "f32", "f33", "f34", "f35">>

\* {f'f{i}': v for i, v in enumerate(X[-1])}
make_test_features(x) ==
    [t \in { FeatureToken[i] : i \in 1..Len(x) } |->
        x[CHOOSE i \in 1..Len(x) : FeatureToken[i] = t]]

\* 0:[f1<0.2] yes=1,no=2,missing=1 / 1:leaf=0.7 / 2:leaf=-1.1
TreeOnF1 ==
    [nodeid |-> 0, depth |-> 0, split |-> "f1", split_condition |-> 2,
     yes |-> 1, no |-> 2, missing |-> 1,
     children |-> <<[nodeid |-> 1, leaf |-> 7], [nodeid |-> 2, leaf |-> -11]>>]

\* The {'b', 't'} records export_xgboost returns in the runs of the model.
Ensembles ==
    { [b |-> 5, t |-> <<ExampleStump>>],
      [b |-> 2, t |-> <<ExampleTree, TreeOnF1>>],
      [b |-> 0, t |-> <<TreeOnF1, ExampleStump, ExampleTree>>] }

\* model_json with 'f' set to the full column list instead of feature_cols.
make_model_json_static(cols, e7, e30) ==
    [v |-> "2.1",
     f |-> get_feature_columns(AllColumns),
     m |-> [h \in {"7d", "30d"} |-> IF h = "7d" THEN e7 ELSE e30]]

make_model_json(cols, e7, e30) ==
    [v |-> "2.1",
     f |-> cols,
     m |-> [h \in {"7d", "30d"} |-> IF h = "7d" THEN e7 ELSE e30]]

\* The horizon labels in the order the scripts insert them.
HorizonOrder == <<"7d", "30d">>

\* json.dump of a {'v', 'f', 'm'} value.
dump_model_json(mj, indent) ==
    enc_dict(
      << <<"v", <<Str(mj.v)>> >>,
         <<"f", enc_strings(mj.f, indent)>>,
         <<"m", enc_dict(
                  [i \in 1..Len(Existing(HorizonOrder, DOMAIN mj.m)) |->
                     LET h == Existing(HorizonOrder, DOMAIN mj.m)[i] IN
                     <<h, enc_dict(<< <<"b", <<Number(mj.m[h].b)>> >>,
                                      <<"t", enc_trees(mj.m[h].t, indent)>> >>,
                                   indent)>>],
                  indent)>> >>,
      indent)

RECURSIVE sum_trees(_, _)
\* for tree in t: pred += predict_tree(tree, features), from 0.
sum_trees(ts, fs) ==
    IF Len(ts) = 0 THEN 0
    ELSE predict_tree(ts[1], fs) + sum_trees(Tail(ts), fs)

\* The sum of the trees' values without 'b'.
ensemble_pred_no_base(e, fs) == sum_trees(e.t, fs)

\* pred = e['b']; for tree in e['t']: pred += predict_tree(tree, features)
ensemble_pred(e, fs) == e.b + sum_trees(e.t, fs)

\* The prediction loop run over the trees of every horizon of 'm'.
predict_7d_all(mj, fs) ==
    ensemble_pred(mj.m["7d"], fs) + sum_trees(mj.m["30d"].t, fs)

\* pred_7d: the loop over model_json['m']['7d'].
predict_7d(mj, fs) == ensemble_pred(mj.m["7d"], fs)

---------------------------------------------------------------------------
\* train_xgboost and train_spy_returns: export_model_to_json, export and
\* compact_export.

\* model.get_params()['base_score']: not set, or the number it was set to.
NotSet == [given |-> FALSE]

Given(v) == [given |-> TRUE, val |-> v]

\* float(p or 0.5): None and 0.0 are falsy.
base_score_or_default(p) == IF p.given /\ p.val # 0 THEN p.val ELSE 5

\* The trained models of the runs: the base_score parameter and the text of
\* each tree as booster.get_dump(dump_format='json') returns it.
TrainedModels ==
    { [base_score |-> NotSet, dumps |-> <<enc_tree(ExampleStump, TRUE)>>],
      [base_score |-> Given(0),
       dumps |-> <<enc_tree(ExampleTree, TRUE), enc_tree(TreeOnF1, TRUE)>>],
      [base_score |-> Given(2),
       dumps |-> <<enc_tree(TreeOnF1, TRUE), enc_tree(ExampleStump, TRUE)>>] }

\* train_model returns a model, or None when the target has too few samples.
TrainOutcomes == TrainedModels \cup {None}

\* The feature_names prepare_features returns, cut to the first names.
FeatureNameLists ==
    { <<"pxi_score", "pxi_delta_1d">>, <<"pxi_score", "pxi_delta_7d", "vix">> }

export_model_to_json(model, names) ==
    LET model_trees == [i \in 1..Len(model.dumps) |-> json_loads(model.dumps[i])]
    IN [type |-> "xgboost",
        version |-> "1.0",
        n_estimators |-> Len(model_trees),
        base_score |-> base_score_or_default(model.base_score),
        feature_names |-> names,
        trees |-> model_trees]

\* models = {}; models['7d'] = model_7d if model_7d; the same for '30d'.
models_dict(m7, m30) ==
    [h \in { x \in {"7d", "30d"} : ~IsNone(IF x = "7d" THEN m7 ELSE m30) } |->
        IF h = "7d" THEN m7 ELSE m30]

\* The metrics of one model, cut to n_samples.
model_metrics == [n_samples |-> 120]

\* The export dict of train_xgboost.main after the loop over models.
make_export(names, models) ==
    [created_at |-> "utcnow",
     feature_names |-> names,
     models |-> [h \in DOMAIN models |-> export_model_to_json(models[h], names)],
     metrics |-> [h \in DOMAIN models |-> model_metrics]]

\* The export dict of train_spy_returns.main after the loop over models.
make_spy_export(names, models) ==
    [created_at |-> "utcnow",
     model_type |-> "spy_returns",
     feature_names |-> names,
     models |-> [h \in DOMAIN models |-> export_model_to_json(models[h], names)],
     metrics |-> [h \in DOMAIN models |-> model_metrics]]

\* compact_export with 'b' set to the default 0.5 instead of the exported one.
make_compact_export_default(export) ==
    [v |-> "1.0",
     f |-> export.feature_names,
     m |-> [h \in DOMAIN export.models |-> [b |-> 5, t |-> export.models[h].trees]]]

make_compact_export(export) ==
    [v |-> "1.0",
     f |-> export.feature_names,
     m |-> [h \in DOMAIN export.models |->
              [b |-> export.models[h].base_score, t |-> export.models[h].trees]]]

\* json.dump of one entry of export['models'].
dump_model_data(md, indent) ==
    enc_dict(<< <<"type", <<Str(md.type)>> >>,
                <<"version", <<Str(md.version)>> >>,
                <<"n_estimators", <<Number(md.n_estimators)>> >>,
                <<"base_score", <<Number(md.base_score)>> >>,
                <<"feature_names", enc_strings(md.feature_names, indent)>>,
                <<"trees", enc_trees(md.trees, indent)>> >>,
             indent)

\* json.dump of an export dict (with 'model_type' when it has one).
dump_export(export, indent) ==
    LET hs == Existing(HorizonOrder, DOMAIN export.models) IN
    enc_dict(
      << <<"created_at", <<Str(export.created_at)>> >> >>
      \o (IF "model_type" \in DOMAIN export
          THEN << <<"model_type", <<Str(export.model_type)>> >> >>
          ELSE << >>)
      \o << <<"feature_names", enc_strings(export.feature_names, indent)>>,
            <<"models",
              enc_dict([i \in 1..Len(hs) |->
                          <<hs[i], dump_model_data(export.models[hs[i]], indent)>>],
                       indent)>>,
            <<"metrics",
              enc_dict([i \in 1..Len(hs) |->
                          <<hs[i],
                            enc_dict(<< <<"n_samples",
                                          <<Number(export.metrics[hs[i]].n_samples)>> >> >>,
                                     indent)>>],
                       indent)>> >>,
      indent)

---------------------------------------------------------------------------
\* The decoder and the evaluator that read the artifact files.

\* The schema versions the exporters write, and one no exporter writes.
Versions == {"1.0", "2.1", "3.0"}

SupportedVersions == {"1.0", "2.1"}

\* The schema version an artifact declares at its top level.
schema_version(j) == IF "v" \in DOMAIN j THEN j.v ELSE "absent"

\* The canonical ensemble of a {'v', 'f', 'm'} value or of an export dict.
Canonical(j) ==
    IF "m" \in DOMAIN j
    THEN [f |-> j.f,
          m |-> [h \in DOMAIN j.m |-> [b |-> j.m[h].b, t |-> j.m[h].t]]]
    ELSE [f |-> j.feature_names,
          m |-> [h \in DOMAIN j.models |->
                   [b |-> j.models[h].base_score, t |-> j.models[h].trees]]]

\* decode without the version check.
decode_unchecked(j) == [artifact |-> Canonical(j)]

decode(j) ==
    IF schema_version(j) \notin SupportedVersions
    THEN [error |-> "UnsupportedSchemaVersion"]
    ELSE [artifact |-> Canonical(j)]

\* The labels an evaluation may be asked for.
HorizonLabels == {"7d", "30d", "90d"}

EvalValues == {Num(1), NaN}

\* The vectors an evaluation may be asked with: entries for f0, f1 or neither.
EvalVectors == UNION { [ks -> EvalValues] : ks \in SUBSET {"f0", "f1"} }

evaluate(artifact, h, fs) ==
    IF h \notin DOMAIN artifact.m
    THEN [error |-> "UnknownHorizon"]
    ELSE [value |-> ensemble_pred(artifact.m[h], fs)]

---------------------------------------------------------------------------
\* The runs of the three exporting scripts, then decoding and evaluation.

\* The parser and the test loop of the first part are not running.
TreeOff ==
    /\ pc = "off"
    /\ nodes = EmptyDict
    /\ lines = << >>
    /\ total_lines = 0
    /\ dumps_done = 0
    /\ parsed = None
    /\ trees = << >>
    /\ base_score = 0
    /\ features = EmptyDict
    /\ pred = 0
    /\ k = 0
    /\ exc = "none"

ArtifactStart ==
    /\ apc = "start"
    /\ ArtifactInit
    /\ TreeOff
    /\ CallersOff
    /\ LstmOff

\* train_and_export up to model_json: the feature columns, X and the two
\* exported models.
BuildModelJson ==
    /\ apc = "start"
    /\ \E columns \in DfColumns, nans \in NanColumnSets, e7 \in Ensembles,
          e30 \in Ensembles :
          /\ df' = [columns |-> columns, last |-> LastRow(columns, nans)]
          /\ feature_names' = get_feature_columns(columns)
          /\ X_last' = X_row(get_feature_columns(columns), LastRow(columns, nans))
          /\ model_json' = make_model_json(get_feature_columns(columns), e7, e30)
    /\ apc' = "te_built"
    /\ UNCHANGED <<files, test_features, pred_7d, dinput, loaded, derr, request,
                   result, evals>>
    /\ UNCHANGED <<tvars, cvars, lvars>>

\* json.dump(model_json, f, indent=2) to pxi_model.json
WriteModelJson ==
    /\ apc = "te_built"
    /\ files' = DictSet(files, "pxi_model.json", dump_model_json(model_json, TRUE))
    /\ apc' = "te_verbose"
    /\ UNCHANGED <<df, feature_names, X_last, model_json, test_features, pred_7d,
                   dinput, loaded, derr, request, result, evals>>
    /\ UNCHANGED <<tvars, cvars, lvars>>

\* json.dump(model_json, f, separators=(',', ':')) to pxi_model_compact.json
WriteModelJsonCompact ==
    /\ apc = "te_verbose"
    /\ files' = DictSet(files, "pxi_model_compact.json",
                        dump_model_json(model_json, FALSE))
    /\ apc' = "te_written"
    /\ UNCHANGED <<df, feature_names, X_last, model_json, test_features, pred_7d,
                   dinput, loaded, derr, request, result, evals>>
    /\ UNCHANGED <<tvars, cvars, lvars>>

\* The verification at the end of train_and_export.
TestPrediction ==
    /\ apc = "te_written"
    /\ test_features' = make_test_features(X_last)
    /\ pred_7d' = predict_7d(model_json, make_test_features(X_last))
    /\ apc' = "exported"
    /\ UNCHANGED <<df, feature_names, X_last, model_json, files, dinput, loaded,
                   derr, request, result, evals>>
    /\ UNCHANGED <<tvars, cvars, lvars>>

\* train_xgboost.main up to the export dict.
BuildExport ==
    /\ apc = "start"
    /\ \E names \in FeatureNameLists, m7 \in TrainOutcomes, m30 \in TrainOutcomes :
          /\ feature_names' = names
          /\ model_json' = make_export(names, models_dict(m7, m30))
    /\ apc' = "xgb_built"
    /\ UNCHANGED <<df, X_last, files, test_features, pred_7d, dinput, loaded,
                   derr, request, result, evals>>
    /\ UNCHANGED <<tvars, cvars, lvars>>

\* json.dump(export, f, indent=2) to pxi_model.json
WriteExport ==
    /\ apc = "xgb_built"
    /\ files' = DictSet(files, "pxi_model.json", dump_export(model_json, TRUE))
    /\ apc' = "xgb_verbose"
    /\ UNCHANGED <<df, feature_names, X_last, model_json, test_features, pred_7d,
                   dinput, loaded, derr, request, result, evals>>
    /\ UNCHANGED <<tvars, cvars, lvars>>

\* compact_export is built from export and dumped to pxi_model_compact.json
WriteCompactExport ==
    /\ apc = "xgb_verbose"
    /\ files' = DictSet(files, "pxi_model_compact.json",
                        dump_model_json(make_compact_export(model_json), FALSE))
    /\ apc' = "exported"
    /\ UNCHANGED <<df, feature_names, X_last, model_json, test_features, pred_7d,
                   dinput, loaded, derr, request, result, evals>>
    /\ UNCHANGED <<tvars, cvars, lvars>>

\* train_spy_returns.main up to the export dict; sys.exit(1) without a model.
BuildSpyExport ==
    /\ apc = "start"
    /\ \E names \in FeatureNameLists, m7 \in TrainOutcomes, m30 \in TrainOutcomes :
          /\ feature_names' = names
          /\ IF DOMAIN models_dict(m7, m30) = {}
             THEN /\ apc' = "exited"
                  /\ model_json' = model_json
             ELSE /\ apc' = "spy_built"
                  /\ model_json' = make_spy_export(names, models_dict(m7, m30))
    /\ UNCHANGED <<df, X_last, files, test_features, pred_7d, dinput, loaded,
                   derr, request, result, evals>>
    /\ UNCHANGED <<tvars, cvars, lvars>>

\* json.dump(export, f, indent=2) to spy_return_model.json
WriteSpyExport ==
    /\ apc = "spy_built"
    /\ files' = DictSet(files, "spy_return_model.json", dump_export(model_json, TRUE))
    /\ apc' = "exported"
    /\ UNCHANGED <<df, feature_names, X_last, model_json, test_features, pred_7d,
                   dinput, loaded, derr, request, result, evals>>
    /\ UNCHANGED <<tvars, cvars, lvars>>

\* One of the files is decoded: as it was written, or as an exporter of
\* another schema version writes the same artifact.
Decode ==
    /\ apc = "exported"
    /\ IsNone(dinput)
    /\ \E name \in DOMAIN files, ver \in Versions :
          LET written == json_loads(files[name])
              j == IF "v" \in DOMAIN written
                   THEN [written EXCEPT !.v = ver]
                   ELSE written
              r == decode(j)
          IN /\ dinput' = j
             /\ IF "error" \in DOMAIN r
                THEN derr' = r.error /\ loaded' = None
                ELSE derr' = "none" /\ loaded' = r.artifact
    /\ UNCHANGED <<apc, df, feature_names, X_last, model_json, files,
                   test_features, pred_7d, request, result, evals>>
    /\ UNCHANGED <<tvars, cvars, lvars>>

\* One evaluation of the decoded artifact.
Evaluate ==
    /\ ~IsNone(loaded)
    /\ evals < MaxEvals
    /\ \E h \in HorizonLabels, fs \in EvalVectors :
          /\ request' = [h |-> h, fs |-> fs]
          /\ result' = evaluate(loaded, h, fs)
    /\ evals' = evals + 1
    /\ UNCHANGED <<apc, df, feature_names, X_last, model_json, files,
                   test_features, pred_7d, dinput, loaded, derr>>
    /\ UNCHANGED <<tvars, cvars, lvars>>

ArtifactNext ==
    \/ BuildModelJson
    \/ WriteModelJson
    \/ WriteModelJsonCompact
    \/ TestPrediction
    \/ BuildExport
    \/ WriteExport
    \/ WriteCompactExport
    \/ BuildSpyExport
    \/ WriteSpyExport
    \/ Decode
    \/ Evaluate

SpecArtifact == ArtifactStart /\ [][ArtifactNext]_vars

---------------------------------------------------------------------------
\* Notions of the artifact properties.

\* The JSON value a written file holds.
FileValue(name) == json_loads(files[name])

\* Both artifact files of one run of train_and_export or train_xgboost exist.
BothWritten == {"pxi_model.json", "pxi_model_compact.json"} \subseteq DOMAIN files

\* train_and_export has run to its end.
TrainAndExportDone == apc = "exported" /\ ~IsNone(df)

\* The top-level keys a schema version may be stored under.
VersionKeys == {"v", "version", "schema_version"}

\* C11: the verbose and the compact file written by one run hold the same
\* horizons, the same feature names in the same order, the same base score and
\* the same trees per horizon, and so give the same prediction for every
\* horizon on every feature vector.
C11_SameEnsemble ==
    BothWritten =>
      LET verbose == Canonical(FileValue("pxi_model.json"))
          compact == Canonical(FileValue("pxi_model_compact.json"))
      IN /\ DOMAIN verbose.m = DOMAIN compact.m
         /\ verbose.f = compact.f
         /\ \A h \in DOMAIN verbose.m :
               /\ verbose.m[h].b = compact.m[h].b
               /\ verbose.m[h].t = compact.m[h].t
               /\ \A fs \in EvalVectors :
                     ensemble_pred(verbose.m[h], fs) = ensemble_pred(compact.m[h], fs)

\* train_xgboost has written both files, for a model whose base score is not
\* the default.
C11_Witness ==
    /\ BothWritten
    /\ "models" \in DOMAIN FileValue("pxi_model.json")
    /\ \E h \in DOMAIN FileValue("pxi_model_compact.json").m :
          FileValue("pxi_model_compact.json").m[h].b = 2

\* C12: the 'f' of each file train_and_export wrote is the feature list the
\* training matrix was built from, in that order, so that the i-th name of 'f'
\* is the column the i-th entry of X[-1] and the token f<i> of test_features
\* were taken from.
C12_FeatureOrder ==
    TrainAndExportDone =>
      \A name \in DOMAIN files :
        LET f == FileValue(name).f IN
        /\ f = feature_names
        /\ Len(f) = Len(X_last)
        /\ DOMAIN test_features = { FeatureToken[i] : i \in 1..Len(f) }
        /\ \A i \in 1..Len(f) :
              /\ X_last[i] = fillna(df.last[f[i]])
              /\ test_features[FeatureToken[i]] = fillna(df.last[f[i]])

\* train_and_export has run on data without vix and without some categories:
\* the feature list is shorter than the full one.
C12_Witness ==
    /\ TrainAndExportDone
    /\ BothWritten
    /\ "vix" \notin df.columns
    /\ Len(feature_names) < Len(get_feature_columns(AllColumns))
    /\ \E c \in DOMAIN df.last : df.last[c].nan

\* C13: every artifact file written holds a schema version at its top level.
C13_VersionInEveryFile ==
    \A name \in DOMAIN files : DOMAIN FileValue(name) \cap VersionKeys # {}

\* C14: when the artifact handed to the decoder declares a schema version the
\* decoder does not implement, decoding fails with UnsupportedSchemaVersion,
\* nothing is loaded and no evaluation is made.
C14_UnsupportedVersionRejected ==
    (~IsNone(dinput) /\ schema_version(dinput) \notin SupportedVersions) =>
      /\ derr = "UnsupportedSchemaVersion"
      /\ IsNone(loaded)
      /\ IsNone(result)
      /\ evals = 0

\* An artifact of version 3.0 was handed to the decoder.
C14_Witness ==
    /\ ~IsNone(dinput)
    /\ "v" \in DOMAIN dinput
    /\ dinput.v = "3.0"
    /\ derr = "UnsupportedSchemaVersion"

WithHorizon(artifact, h, e) ==
    [artifact EXCEPT !.m = [x \in DOMAIN artifact.m \cup {h} |->
                              IF x = h THEN e ELSE artifact.m[x]]]

\* The artifact without the entry of horizon h.
WithoutHorizon(artifact, h) ==
    [artifact EXCEPT !.m = [x \in DOMAIN artifact.m \ {h} |-> artifact.m[x]]]

\* C19: the prediction for a horizon does not depend on the other horizons:
\* the test prediction of train_and_export is the one any other 30d model
\* gives, and an evaluation of a decoded artifact returns what it returns with
\* any other horizon replaced or removed.
C19_HorizonsIndependent ==
    /\ TrainAndExportDone =>
         \A e \in Ensembles :
            predict_7d(WithHorizon(model_json, "30d", e), test_features) = pred_7d
    /\ (~IsNone(result) /\ request.h \in DOMAIN loaded.m) =>
         \A other \in HorizonLabels \ {request.h} :
            /\ evaluate(WithoutHorizon(loaded, other), request.h, request.fs) = result
            /\ \A e \in Ensembles :
                  evaluate(WithHorizon(loaded, other, e), request.h, request.fs) = result

\* train_and_export has made its test prediction with different 7d and 30d
\* models, and the 7d horizon of its decoded artifact has been evaluated.
C19_Witness ==
    /\ TrainAndExportDone
    /\ model_json.m["7d"] # model_json.m["30d"]
    /\ ~IsNone(result)
    /\ request.h = "7d"
    /\ "value" \in DOMAIN result

---------------------------------------------------------------------------
\* Concurrent callers: each runs the prediction loop of train_and_export
\* (pred = b; for tree in t: pred += predict_tree(tree, features)) on the
\* same model_json, one tree per step, with its own locals.

Callers == {"c1", "c2"}

\* The artifacts the callers share.
SharedArtifacts ==
    { make_model_json(feature_cols, e7,
                      CHOOSE e30 \in Ensembles : Len(e30.t) = 1) : e7 \in Ensembles }

\* The feature vectors the callers ask with.
CallerVectors ==
    { [f0 |-> Num(1)], [f0 |-> Num(150), f1 |-> NaN], EmptyDict }

\* A caller that has not called yet.
IdleCaller == [at |-> "idle", fs |-> EmptyDict, i |-> 0, pred |-> 0, calls |-> 0]

ConcurrentInit ==
    /\ shared \in SharedArtifacts
    /\ cstate = [c \in Callers |-> IdleCaller]
    /\ apc = "off"
    /\ ArtifactInit
    /\ TreeOff
    /\ LstmOff

\* The caller's locals after one more iteration of its loop.
AfterTree(c) ==
    [cstate[c] EXCEPT
        !.pred = @ + predict_tree(shared.m["7d"].t[cstate[c].i], cstate[c].fs),
        !.i = @ + 1]

\* pred = model_json['m']['7d']['b']
CallPredict(c) ==
    /\ cstate[c].at \in {"idle", "returned"}
    /\ cstate[c].calls < MaxCalls
    /\ \E fs \in CallerVectors :
          cstate' = [cstate EXCEPT ![c] =
                       [at |-> "loop", fs |-> fs, i |-> 1,
                        pred |-> shared.m["7d"].b, calls |-> cstate[c].calls]]
    /\ UNCHANGED shared
    /\ UNCHANGED <<tvars, avars, lvars>>

\* PredictStep with the running sum kept in the artifact's 'b' as well.
PredictStep_in_place(c) ==
    /\ cstate[c].at = "loop"
    /\ cstate[c].i <= Len(shared.m["7d"].t)
    /\ cstate' = [cstate EXCEPT ![c] = AfterTree(c)]
    /\ shared' = [shared EXCEPT !.m["7d"].b = AfterTree(c).pred]
    /\ UNCHANGED <<tvars, avars, lvars>>

\* pred += predict_tree(tree, features) for the next tree
PredictStep(c) ==
    /\ cstate[c].at = "loop"
    /\ cstate[c].i <= Len(shared.m["7d"].t)
    /\ cstate' = [cstate EXCEPT ![c] = AfterTree(c)]
    /\ UNCHANGED shared
    /\ UNCHANGED <<tvars, avars, lvars>>

\* The loop is over: pred is the caller's result.
ReturnPredict(c) ==
    /\ cstate[c].at = "loop"
    /\ cstate[c].i > Len(shared.m["7d"].t)
    /\ cstate' = [cstate EXCEPT ![c].at = "returned", ![c].calls = @ + 1]
    /\ UNCHANGED shared
    /\ UNCHANGED <<tvars, avars, lvars>>

ConcurrentNext ==
    \E c \in Callers :
       \/ CallPredict(c)
       \/ PredictStep(c)
       \/ ReturnPredict(c)

SpecConcurrent == ConcurrentInit /\ [][ConcurrentNext]_vars

\* C18: no step of any caller changes the artifact, and whatever the other
\* callers do meanwhile, a call returns the value the loop gives when it runs
\* alone on the artifact with the caller's vector, also on a caller's second
\* call.
C18_EvaluationReadsOnly ==
    /\ [][shared' = shared]_vars
    /\ [](\A c \in Callers :
            cstate[c].at = "returned" =>
               cstate[c].pred = predict_7d(shared, cstate[c].fs))

\* One caller has returned from its second call while the other is in the
\* middle of its loop.
C18_Witness ==
    \E c, d \in Callers :
       /\ c # d
       /\ cstate[c].at = "returned" /\ cstate[c].calls = 2
       /\ cstate[d].at = "loop" /\ cstate[d].i = 2

---------------------------------------------------------------------------
\* Notions of the indentation and line properties.

\* The indentations a line is given in the comparison.
Indents == 0..1

RECURSIVE parse_lines(_, _)
\* nodes after the 'for line in lines' loop has run over ls, from ns.
parse_lines(ns, ls) ==
    IF Len(ls) = 0 THEN ns
    ELSE parse_lines(parse_line(ns, ls[1]), Tail(ls))

\* The lines ls with every line i after the first indented by ind[i]; the
\* indentation of the first line is stripped with the dump.
Reindented(ls, ind) ==
    [i \in 1..Len(ls) |->
        IF i = 1 THEN FirstLine(ls[i]) ELSE [ls[i] EXCEPT !.indent = ind[i]]]

RECURSIVE WithoutDepth(_)
\* The tree without the 'depth' fields; None and RecursionError as they are.
WithoutDepth(tree) ==
    IF ~IsNode(tree) THEN tree
    ELSE [f \in (DOMAIN tree) \ {"depth"} |->
             IF f = "children"
             THEN [i \in 1..Len(tree.children) |-> WithoutDepth(tree.children[i])]
             ELSE tree[f]]

\* What parse_xgb_tree_dump returns for the lines ls.
TreeOf(ls) == build_tree(parse_lines(EmptyDict, ls), 0, 1)

\* C21: the lines read so far, indented in any other way, parse to the same
\* tree except for 'depth' (ids, leaf values, features, thresholds,
\* yes/no/missing ids, children), and that tree gives the same prediction on
\* every feature vector.
C21_IndentationOnlySetsDepth ==
    (pc = "parse" /\ Len(lines) >= 1) =>
      \A ind \in [2..Len(lines) -> Indents] :
         /\ WithoutDepth(TreeOf(Reindented(lines, ind)))
              = WithoutDepth(build_tree(nodes, 0, 1))
         /\ IsNode(build_tree(nodes, 0, 1)) =>
              \A fs \in FeatureVectors :
                 predict_tree(TreeOf(Reindented(lines, ind)), fs)
                   = predict_tree(build_tree(nodes, 0, 1), fs)

\* A dump with an indented and an unindented split line after the root has
\* been read, and its tree nests a split below the root.
C21_Witness ==
    /\ pc = "parse"
    /\ Len(lines) >= 2
    /\ \E i \in 2..Len(lines) : Len(lines[i].splitm) > 0 /\ lines[i].indent > 0
    /\ IsNode(build_tree(nodes, 0, 1))
    /\ \E i \in 1..Len(ChildrenOf(build_tree(nodes, 0, 1))) :
          IsSplit(ChildrenOf(build_tree(nodes, 0, 1))[i])

\* The vector fs has no entry for the feature of split node n.
Absent(n, fs) == n.split \notin DOMAIN fs

\* C22: at a split node whose feature has no entry in the vector, predict_tree
\* compares 0 with the threshold: it selects yes iff 0 < threshold and the walk
\* continues into the child carrying that id; the id selected is the missing
\* id iff (0 < threshold and missing = yes) or (0 >= threshold and missing =
\* no); and for a single tree whose selected child is a leaf the finished
\* prediction is base_score plus that leaf.
C22_AbsentFeatureIsZero ==
    /\ Evaluating =>
         \A i \in 1..(k - 1) :
           LET p == Path(trees[i], features) IN
           \A j \in 1..Len(p) :
             (IsSplit(p[j]) /\ Absent(p[j], features)) =>
               LET t == p[j].split_condition
                   branch == IF 0 < t THEN p[j].yes ELSE p[j].no
               IN /\ target_id(p[j], features) = branch
                  /\ (j < Len(p)) => p[j + 1].nodeid = branch
                  /\ (target_id(p[j], features) = p[j].missing)
                       <=> \/ (0 < t /\ p[j].missing = p[j].yes)
                           \/ (0 >= t /\ p[j].missing = p[j].no)
    /\ (pc = "done" /\ Len(trees) = 1 /\ IsSplit(trees[1])
          /\ Absent(trees[1], features)) =>
         LET t == trees[1].split_condition
             branch == IF 0 < t THEN trees[1].yes ELSE trees[1].no
         IN \A c \in 1..Len(ChildrenOf(trees[1])) :
              LET child == ChildrenOf(trees[1])[c] IN
              (child.nodeid = branch /\ IsLeaf(child)) =>
                 pred = base_score + child.leaf

\* The example tree evaluated with an empty vector: 0 < 10, the yes leaf -3.0,
\* which is also the missing branch.
C22_Witness ==
    /\ pc = "done"
    /\ trees = <<ExampleTree>>
    /\ features = EmptyDict
    /\ pred = base_score - 30

\* A line that is no node: no '<id>:' prefix, or neither a leaf token nor a
\* complete split token with its yes/no/missing ids.
Unparseable(l) ==
    \/ Len(l.idm) = 0
    \/ Len(l.leafm) = 0 /\ (Len(l.splitm) = 0 \/ Len(l.branchm) = 0)

\* C23: the parse of a dump that has a line which is no node ends with
\* MalformedDump.
C23_UnparseableLineRejected ==
    [][(pc = "parse" /\ pc' # "parse"
          /\ \E i \in 1..Len(lines) : Unparseable(lines[i]))
         => exc' = "MalformedDump"]_vars

RECURSIVE RepeatsOnPath(_, _)
\* Some node below (or at) tree carries an id of 'above', the ids of its
\* ancestors, or of a node between.
RepeatsOnPath(tree, above) ==
    \/ tree.nodeid \in above
    \/ \E i \in 1..Len(ChildrenOf(tree)) :
          RepeatsOnPath(ChildrenOf(tree)[i], above \cup {tree.nodeid})

\* C24: tree assembly ends without running out of stack, and the tree it
\* returns repeats no node id along a path from the root.
C24_AssemblyTerminates ==
    /\ exc # "RecursionError"
    /\ (ParseReturned /\ IsNode(parsed)) => ~RepeatsOnPath(parsed, {})

\* The ids of ns below id i: those its yes/no references lead to.
Below(ns, i) ==
    IF IsSplit(ns[i])
    THEN RefClosure(ns, {ns[i].yes, ns[i].no} \cap DOMAIN ns)
    ELSE {}

\* Every yes/no id of the mapping ns names a node of ns and no node is below
\* itself.
Resolved(ns) ==
    /\ \A i \in DOMAIN ns :
          IsSplit(ns[i]) => ns[i].yes \in DOMAIN ns /\ ns[i].no \in DOMAIN ns
    /\ \A i \in DOMAIN ns : i \notin Below(ns, i)

RECURSIVE FlatWalk(_, _, _)
\* The walk over the flat id -> node mapping from id: yes when the value of
\* the feature (0 when the vector has none) is below the threshold, else no.
FlatWalk(ns, id, fs) ==
    IF IsLeaf(ns[id]) THEN ns[id].leaf
    ELSE LET v == IF ns[id].split \in DOMAIN fs THEN fs[ns[id].split] ELSE Num(0)
         IN IF (~v.nan) /\ v.val < ns[id].split_condition
            THEN FlatWalk(ns, ns[id].yes, fs)
            ELSE FlatWalk(ns, ns[id].no, fs)

\* C25: for the lines read so far, if no id occurs twice, every yes/no id
\* names a parsed node and there is no cycle, then on every feature vector
\* predict_tree over the nested tree the parse returns ends on a leaf and
\* returns the value the walk over the flat mapping from id 0 returns.
C25_NestedEqualsFlat ==
    (pc = "parse" /\ Len(lines) >= 1 /\ ~HasDuplicateId(lines)
       /\ Resolved(nodes) /\ 0 \in DOMAIN nodes) =>
      /\ IsNode(build_tree(nodes, 0, 1))
      /\ \A fs \in FeatureVectors :
            /\ ~Unresolved(build_tree(nodes, 0, 1), fs)
            /\ predict_tree(build_tree(nodes, 0, 1), fs) = FlatWalk(nodes, 0, fs)

\* The three lines of the example tree have been read.
C25_Witness ==
    /\ pc = "parse"
    /\ Len(lines) = 3
    /\ ~HasDuplicateId(lines)
    /\ Resolved(nodes)
    /\ build_tree(nodes, 0, 1) = ExampleTree

---------------------------------------------------------------------------
\* train_lstm.py: the epoch loop of train_pytorch_model.

EPOCHS == 100

patience == 10

\* Finite validation losses of a run are 0..MaxLoss.
MaxLoss == 9

\* float('inf'): above every finite loss.
Inf == Num(MaxLoss + 1)

\* What val_loss can be at the end of an epoch: finite, inf or NaN.
Losses == {Num(v) : v \in 0..(MaxLoss + 1)} \cup {NaN}

\* Python's '<' on two floats.
LossLess(a, b) == (~a.nan) /\ (~b.nan) /\ a.val < b.val

\* model.state_dict(): parameter name -> a tensor on the storage of the live
\* parameter.
state_dict == [weight |-> "model"]

\* dict.copy(): a new dict with the same values, here the same tensors.
copy(d) == d

\* The 'Early stopping' block with the counter left as it is on an improvement.
early_stopping_no_reset(loss, best, state, counter) ==
    IF LossLess(loss, best)
    THEN [best_val_loss |-> loss, best_state |-> copy(state_dict),
          patience_counter |-> counter]
    ELSE [best_val_loss |-> best, best_state |-> state,
          patience_counter |-> counter + 1]

\* The 'Early stopping' block of an epoch.
early_stopping(loss, best, state, counter) ==
    IF LossLess(loss, best)
    THEN [best_val_loss |-> loss, best_state |-> copy(state_dict),
          patience_counter |-> 0]
    ELSE [best_val_loss |-> best, best_state |-> state,
          patience_counter |-> counter + 1]

\* model.load_state_dict(sd): the contents of the tensors of sd are copied
\* into the parameters.
load_state_dict(ps, sd) == [ps EXCEPT !["model"] = ps[sd.weight]]

\* The history after an epoch e that ended with val_loss loss.
Observe(h, e, loss) ==
    IF LossLess(loss, h.lowest)
    THEN [lowest |-> loss, lowest_epoch |-> e, lowest_weights |-> e, stale |-> 0]
    ELSE [h EXCEPT !.stale = h.stale + 1]

LstmInit ==
    /\ lpc = "loop"
    /\ epoch = 0
    /\ params = [s \in {"model"} |-> 0]
    /\ val_loss = None
    /\ best_val_loss = Inf
    /\ best_state = None
    /\ patience_counter = 0
    /\ metrics = None
    /\ seen = [lowest |-> Inf, lowest_epoch |-> 0, lowest_weights |-> 0, stale |-> 0]
    /\ apc = "off"
    /\ ArtifactInit
    /\ TreeOff
    /\ CallersOff

\* One iteration of the for loop: the optimizer steps of the epoch change the
\* parameters in place, the validation pass gives val_loss, then the early
\* stopping block; the loop ends by break or when range(EPOCHS) is used up.
Epoch ==
    /\ lpc = "loop"
    /\ epoch < EPOCHS
    /\ \E loss \in Losses :
          LET es == early_stopping(loss, best_val_loss, best_state, patience_counter)
          IN /\ epoch' = epoch + 1
             /\ params' = [params EXCEPT !["model"] = epoch + 1]
             /\ val_loss' = loss
             /\ best_val_loss' = es.best_val_loss
             /\ best_state' = es.best_state
             /\ patience_counter' = es.patience_counter
             /\ seen' = Observe(seen, epoch + 1, loss)
             /\ lpc' = IF es.patience_counter >= patience \/ epoch + 1 = EPOCHS
                       THEN "after_loop" ELSE "loop"
    /\ UNCHANGED metrics
    /\ UNCHANGED <<tvars, avars, cvars>>

\* '# Load best model': load_state_dict raises on None.
LoadBest ==
    /\ lpc = "after_loop"
    /\ IF IsNone(best_state)
       THEN lpc' = "raised" /\ UNCHANGED params
       ELSE lpc' = "loaded" /\ params' = load_state_dict(params, best_state)
    /\ UNCHANGED <<epoch, val_loss, best_val_loss, best_state, patience_counter,
                   metrics, seen>>
    /\ UNCHANGED <<tvars, avars, cvars>>

\* The metrics dict and the return; mse, mae and r2 are not modelled.
ReturnMetrics ==
    /\ lpc = "loaded"
    /\ metrics' = [best_epoch |-> EPOCHS - patience_counter]
    /\ lpc' = "returned"
    /\ UNCHANGED <<epoch, params, val_loss, best_val_loss, best_state,
                   patience_counter, seen>>
    /\ UNCHANGED <<tvars, avars, cvars>>

LstmNext == Epoch \/ LoadBest \/ ReturnMetrics

SpecLstm == LstmInit /\ [][LstmNext]_vars

---------------------------------------------------------------------------
\* Claims on the epoch loop.

\* lpc moves from "loop" to "after_loop" in this step.
LoopStops == lpc = "loop" /\ lpc' = "after_loop"

\* An iteration that leaves the loop running.
LoopGoesOn == lpc = "loop" /\ lpc' = "loop" /\ epoch' = epoch + 1

\* C26: the loop stops at the first epoch that is the 10th in a row without a
\* strict decrease of val_loss below the lowest loss seen, and otherwise after
\* EPOCHS epochs; patience_counter is 0 after every strict decrease, one more
\* after every other epoch, and always in 0..10.
C26_EarlyStopping ==
    /\ [](patience_counter \in 0..patience)
    /\ [](lpc = "loop" => epoch < EPOCHS /\ seen.stale < patience)
    /\ [][(epoch' = epoch + 1) =>
            patience_counter' = IF LossLess(val_loss', seen.lowest)
                                THEN 0 ELSE patience_counter + 1]_vars
    /\ [][LoopStops => (seen'.stale = patience \/ epoch' = EPOCHS)]_vars
    /\ [][LoopGoesOn => (seen'.stale < patience /\ epoch' < EPOCHS)]_vars

\* The loop broke before EPOCHS epochs, after an earlier decrease reset the counter.
C26_Witness ==
    /\ lpc = "after_loop"
    /\ epoch < EPOCHS
    /\ epoch > patience + 1
    /\ patience_counter = patience
    /\ seen.lowest_epoch > 1

\* C27: the weights in the model after 'Load best model' are those it had at
\* the end of the epoch with the lowest val_loss.
C27_BestWeightsLoaded ==
    lpc = "loaded" => params["model"] = seen.lowest_weights

\* C28: the 'best_epoch' of the returned metrics is the 1-based number of the
\* epoch that had the lowest val_loss.
C28_BestEpochReported ==
    lpc = "returned" => metrics.best_epoch = seen.lowest_epoch

====
